---------------------------- MODULE Spec2Model ----------------------------
(***************************************************************************)
(* A model of the research-assistant core: the sentence-aware chunker      *)
(* (ingestion.py), the five agents and the round loop of the orchestrator  *)
(* (agents.py), and the report generator (reports.py).                     *)
(*                                                                         *)
(* Text is a sequence of one-character strings, so that len(), slicing,    *)
(* str.join, str.lower, str.strip, re.split and the "in" test are computed *)
(* as Python computes them.  A confidence c is held as the integer 100*c.  *)
(* Wall-clock values (AgentMessage.timestamp, generated_at) are left out:  *)
(* no operation reads them.  The session state of the dashboard           *)
(* (streamlit_app.py) is held in the variables of the objects it hands to  *)
(* run and generate: documents, metadata, all_messages, message_graph and  *)
(* report.                                                                 *)
(***************************************************************************)
EXTENDS Integers, Sequences, FiniteSets, TLC

VARIABLES
  entry,            \* which public entry point this behaviour exercises
  pc,               \* position of the control thread inside that entry point
  agents_config,    \* AgentOrchestrator.agents_config: sequence of <<role, enabled>> (dict order)
  num_rounds,       \* AgentOrchestrator.num_rounds
  agents,           \* AgentOrchestrator.agents: role names of the instantiated agents
  documents,        \* the documents argument of run / generate
  metadata,         \* the metadata argument: dict doc_id -> meta, as a sequence of <<key, value>>
  str_order,        \* iteration order of a set of str in this process (hash seed)
  round_num,        \* loop variable of run, agents.py:200
  agent_idx,        \* 1-based position of the inner loop of run, agents.py:208
  context,          \* the context dict built at agents.py:201-206
  all_messages,     \* the list all_messages of run; the messages argument of generate
  message_graph,    \* the dict message_graph of run
  act_prior,        \* history: len(context["prior_messages"]) at the time of each act call
  citation_audits,  \* history: the local citation_audit of each CitationGuardAgent.act call
  act_result,       \* the message a direct call of CitationGuardAgent.act returned (None before)
  report,           \* the value returned by ReportGenerator.generate (None before)
  progress_callback,\* whether run received a progress_callback (agents.py:195)
  progress_calls,   \* the calls the progress_callback has received, in order
  act_faults,       \* history: <<round, agent>> of every act call that raised
  text,             \* the text argument of extract_chunks
  chunk_size,       \* the chunk_size argument of extract_chunks
  sentences,        \* local of extract_chunks, ingestion.py:39
  sent_idx,         \* 1-based position of the loop at ingestion.py:45
  current_chunk,    \* local of extract_chunks
  current_src,      \* history: the sentence and offset each character of current_chunk comes from
  current_size,     \* local of extract_chunks
  chunk_id,         \* local of extract_chunks
  chunks,           \* local of extract_chunks; the value returned
  chunk_srcs,       \* history: for each chunk, where each character of its content comes from
  filename,         \* the filename argument of _extract_title
  title,            \* the value _extract_title returned (None before)
  uploaded_files,   \* history: the files of the last Process Uploads
  documents_before, \* history: st.session_state.documents before the last Process Uploads
  last_handler      \* history: the button handler that ran last

vars == <<entry, pc, agents_config, num_rounds, agents, documents, metadata,
          str_order, round_num, agent_idx, context, all_messages,
          message_graph, act_prior, citation_audits, act_result, report, text,
          chunk_size, sentences, sent_idx, current_chunk, current_src,
          current_size, chunk_id, chunks, chunk_srcs, progress_callback,
          progress_calls, act_faults, filename, title, uploaded_files,
          documents_before, last_handler>>

runVars   == <<agents_config, num_rounds, agents, documents, metadata, str_order,
               round_num, agent_idx, context, all_messages, message_graph,
               act_prior, citation_audits, act_result, report>>
chunkVars == <<text, chunk_size, sentences, sent_idx, current_chunk, current_src,
               current_size, chunk_id, chunks, chunk_srcs>>
observerVars == <<progress_callback, progress_calls, act_faults>>
titleVars == <<filename, title>>
appVars == <<uploaded_files, documents_before, last_handler>>

----------------------------------------------------------------------------
(* Bounds of the model.                                                     *)

\* rounds range over 1..MaxRounds
MaxRounds == 4
\* an observed run has 1..MaxObservedRounds rounds
MaxObservedRounds == 3
\* run and generate receive the first 0..MaxDocs documents of the catalogue
MaxDocs == 1
\* a direct call of an agent's act receives at most this many documents,
\* each one of the documents 0..MaxCatalogue of the catalogue
MaxCallDocs == 2
MaxCatalogue == 3
\* a direct call of generate / CitationGuardAgent.act receives at most this many messages
MaxCallMessages == 3
\* extract_chunks receives texts of at most this many characters
MaxTextLen == 7
\* the dashboard stores at most MaxStored documents and receives at most
\* MaxBatch files per Process Uploads
MaxStored == 3
MaxBatch == 2
\* _extract_title receives texts of at most this many lines
MaxLines == 3
\* extract_chunks receives chunk sizes 1..MaxChunkSize
MaxChunkSize == 4

----------------------------------------------------------------------------
(* Python built-ins on sequences and text.                                  *)

Min(a, b) == IF a < b THEN a ELSE b
Max(a, b) == IF a > b THEN a ELSE b

\* s[:n] for n >= 0
Take(s, n) == SubSeq(s, 1, Min(n, Len(s)))

\* s[-n:] for n >= 0.  Python reads s[-0:] as s[0:], the whole of s.
LastChars(s, n) == IF n = 0 \/ n >= Len(s) THEN s ELSE SubSeq(s, Len(s) - n + 1, Len(s))

RECURSIVE Join(_, _)
\* sep.join(parts)
Join(sep, parts) ==
  IF parts = <<>> THEN <<>>
  ELSE IF Len(parts) = 1 THEN parts[1]
  ELSE parts[1] \o sep \o Join(sep, Tail(parts))

Digits == <<"0","1","2","3","4","5","6","7","8","9">>

RECURSIVE Str(_)
\* str(n) of an int n >= 0, as an f-string prints it
Str(n) == IF n < 10 THEN <<Digits[n + 1]>> ELSE Str(n \div 10) \o <<Digits[(n % 10) + 1]>>

UpperCase == <<"A","B","C","D","E","F","G","H","I","J","K","L","M",
               "N","O","P","Q","R","S","T","U","V","W","X","Y","Z">>
LowerCase == <<"a","b","c","d","e","f","g","h","i","j","k","l","m",
               "n","o","p","q","r","s","t","u","v","w","x","y","z">>

\* c.lower() of one ASCII character
LowerChar(c) ==
  IF \E i \in 1..26 : UpperCase[i] = c
  THEN LowerCase[CHOOSE i \in 1..26 : UpperCase[i] = c]
  ELSE c

\* s.lower()
Lower(s) == [i \in 1..Len(s) |-> LowerChar(s[i])]

\* needle in hay
Contains(needle, hay) ==
  \E i \in 0..(Len(hay) - Len(needle)) : SubSeq(hay, i + 1, i + Len(needle)) = needle

\* dict lookups on a dict held as a sequence of <<key, value>> in insertion order
DictHas(d, k) == \E i \in 1..Len(d) : d[i][1] = k
DictGet(d, k, default) ==
  IF DictHas(d, k) THEN d[CHOOSE i \in 1..Len(d) : d[i][1] = k][2] ELSE default
\* d[k] = v: an existing key keeps its position and takes the new value
DictSet(d, k, v) ==
  IF DictHas(d, k)
  THEN [i \in 1..Len(d) |-> IF d[i][1] = k THEN <<k, v>> ELSE d[i]]
  ELSE Append(d, <<k, v>>)

----------------------------------------------------------------------------
(* The fixed strings of agents.py.                                          *)

\* agents.py:50   "No documents available"
NoDocumentsText ==
  <<"N","o"," ","d","o","c","u","m","e","n","t","s"," ","a","v","a","i","l","a","b","l","e">>

\* agents.py:55
ResearcherText1 ==
  <<"A","n","a","l","y","z","e","d"," ">>

\* agents.py:55
ResearcherText2 ==
  <<" ","k","e","y"," ","s","e","c","t","i","o","n","s"," ","f","r","o","m"," ">>

\* agents.py:55
ResearcherText3 ==
  <<"."," ">>

\* agents.py:56
ResearcherText4 ==
  <<"K","e","y"," ","f","i","n","d","i","n","g","s"," ","i","n","c","l","u","d","e"," ","f","o","u","n","d","a","t","i","o","n","a","l"," ","c","o","n","c","e","p","t","s",","," ","m","e","t","h","o","d","o","l","o","g","y"," ","o","v","e","r","v","i","e","w",","," ","a","n","d"," ","p","r","i","m","a","r","y"," ","r","e","s","u","l","t","s","."," ">>

\* agents.py:57
ResearcherText5 ==
  <<"T","o","t","a","l"," ","d","o","c","u","m","e","n","t"," ","c","o","n","t","a","i","n","s"," ">>

\* agents.py:57
ResearcherText6 ==
  <<" ","w","o","r","d","s",".">>

\* agents.py:63
Ellipsis ==
  <<".",".",".">>

\* agents.py:80
critique_point_1 ==
  <<"L","i","m","i","t","e","d"," ","s","c","o","p","e",":"," ","O","n","l","y"," ","a","n","a","l","y","z","e","d"," ","s","i","n","g","l","e"," ","d","a","t","a","s","e","t","s"," ","w","i","t","h","o","u","t"," ","c","r","o","s","s","-","v","a","l","i","d","a","t","i","o","n">>

\* agents.py:81
critique_point_2 ==
  <<"M","e","t","h","o","d","o","l","o","g","i","c","a","l"," ","c","o","n","c","e","r","n",":"," ","S","a","m","p","l","e"," ","s","i","z","e"," ","m","a","y"," ","b","e"," ","i","n","s","u","f","f","i","c","i","e","n","t"," ","f","o","r"," ","s","t","a","t","i","s","t","i","c","a","l"," ","s","i","g","n","i","f","i","c","a","n","c","e">>

\* agents.py:82
critique_point_3 ==
  <<"A","s","s","u","m","p","t","i","o","n"," ","r","i","s","k",":"," ","L","i","n","e","a","r"," ","m","o","d","e","l"," ","a","s","s","u","m","e","s"," ","r","e","l","a","t","i","o","n","s","h","i","p","s"," ","n","o","t"," ","v","a","l","i","d","a","t","e","d"," ","i","n"," ","d","o","m","a","i","n"," ","l","i","t","e","r","a","t","u","r","e">>

\* agents.py:85
ReviewerText1 ==
  <<"C","r","i","t","i","c","a","l"," ","a","s","s","e","s","s","m","e","n","t",":"," ">>

\* agents.py:85, 130, 131
SemicolonSpace ==
  <<";"," ">>

\* agents.py:86
ReviewerText2 ==
  <<"."," ","R","e","c","o","m","m","e","n","d","a","t","i","o","n",":"," ","C","o","n","d","u","c","t"," ","s","e","n","s","i","t","i","v","i","t","y"," ","a","n","a","l","y","s","i","s"," ","a","n","d"," ","v","a","l","i","d","a","t","i","o","n"," ","o","n"," ">>

\* agents.py:86
ReviewerText3 ==
  <<" ","a","d","d","i","t","i","o","n","a","l"," ","d","a","t","a","s","e","t","s",".">>

\* agents.py:89
ReviewerHighlight1 ==
  <<"M","e","t","h","o","d","s"," ","s","e","c","t","i","o","n"," ","i","n","d","i","c","a","t","e","s"," ","s","a","m","p","l","e"," ","s","i","z","e"," ","o","f"," ","N","=","2","5","0">>

\* agents.py:90
ReviewerHighlight2 ==
  <<"L","i","n","e","a","r"," ","r","e","g","r","e","s","s","i","o","n"," ","m","o","d","e","l"," ","w","i","t","h"," ","t","h","r","e","e"," ","p","a","r","a","m","e","t","e","r","s">>

\* agents.py:104
SynthesizerText1 ==
  <<"C","r","o","s","s","-","d","o","c","u","m","e","n","t"," ","s","y","n","t","h","e","s","i","s"," ","o","f"," ">>

\* agents.py:104
SynthesizerText2 ==
  <<" ","s","o","u","r","c","e","s"," ","r","e","v","e","a","l","s",":"," ">>

\* agents.py:105
SynthesizerText3 ==
  <<"(","1",")"," ","C","o","n","s","e","n","s","u","s",":"," ","A","l","l"," ","s","o","u","r","c","e","s"," ","a","g","r","e","e"," ","o","n"," ","c","o","r","e"," ","m","e","t","h","o","d","o","l","o","g","y"," ","f","r","a","m","e","w","o","r","k",";"," ">>

\* agents.py:106
SynthesizerText4 ==
  <<"(","2",")"," ","C","o","n","t","r","a","d","i","c","t","i","o","n",":"," ","D","a","t","a","s","e","t"," ","s","i","z","e"," ","v","a","r","i","e","s"," ","b","y"," ","3","x"," ","a","c","r","o","s","s"," ","i","m","p","l","e","m","e","n","t","a","t","i","o","n","s",";"," ">>

\* agents.py:107
SynthesizerText5 ==
  <<"(","3",")"," ","H","y","p","o","t","h","e","s","i","s",":"," ","V","a","r","i","a","n","c","e"," ","i","n","v","e","r","s","e","l","y"," ","c","o","r","r","e","l","a","t","e","s"," ","w","i","t","h"," ","s","t","a","t","i","s","t","i","c","a","l"," ","r","i","g","o","r","."," ">>

\* agents.py:108 (a plain string, not an f-string: the braces stay)
SynthesizerText6 ==
  <<"R","e","c","o","m","m","e","n","d",":"," ","S","t","a","n","d","a","r","d","i","z","e","d"," ","e","v","a","l","u","a","t","i","o","n"," ","p","r","o","t","o","c","o","l"," ","a","c","r","o","s","s"," ","{","l","e","n","(","d","o","c","u","m","e","n","t","s",")","}"," ","d","a","t","a","s","e","t","s",".">>

\* agents.py:111
SynthesizerHighlight ==
  <<"K","e","y"," ","m","e","t","h","o","d","o","l","o","g","y"," ","c","o","m","p","o","n","e","n","t">>

\* agents.py:111, streamlit_app.py:98
DocIdPrefix ==
  <<"d","o","c","_">>

\* agents.py:129
DataInspectorText1 ==
  <<"D","a","t","a"," ","a","u","d","i","t"," ","a","c","r","o","s","s"," ">>

\* agents.py:129
DataInspectorText2 ==
  <<" ","d","o","c","u","m","e","n","t","s",":"," ">>

\* agents.py:130
DataInspectorText3 ==
  <<"M","e","t","r","i","c","s"," ","i","d","e","n","t","i","f","i","e","d",":"," ">>

\* agents.py:131
DataInspectorText4 ==
  <<"D","a","t","a","s","e","t","s",":"," ">>

\* agents.py:132
DataInspectorText5 ==
  <<"C","o","m","p","a","r","a","b","i","l","i","t","y"," ","s","c","o","r","e",":"," ","0",".","6","5"," ","(","h","e","t","e","r","o","g","e","n","e","o","u","s"," ","e","v","a","l","u","a","t","i","o","n"," ","p","r","o","t","o","c","o","l","s",")",".">>

\* agents.py:140
DataInspectorHighlight ==
  <<"R","e","p","o","r","t","e","d"," ","m","e","t","r","i","c","s",":"," ">>

\* agents.py:161
CitationGuardText1 ==
  <<"C","i","t","a","t","i","o","n"," ","a","u","d","i","t",":"," ">>

\* agents.py:161
CitationGuardText2 ==
  <<"/">>

\* agents.py:161
CitationGuardText3 ==
  <<" ","c","l","a","i","m","s"," ">>

\* agents.py:162
CitationGuardText4 ==
  <<"h","a","v","e"," ","e","x","p","l","i","c","i","t"," ","e","v","i","d","e","n","c","e"," ","l","i","n","k","a","g","e"," ","(">>

\* agents.py:162
CitationGuardText5 ==
  <<"%",")","."," ">>

\* agents.py:163
CitationGuardText6 ==
  <<"Q","u","a","l","i","t","y",":"," ","G","O","O","D","."," ","R","e","c","o","m","m","e","n","d","a","t","i","o","n",":"," ","S","t","r","e","n","g","t","h","e","n"," ","e","v","i","d","e","n","c","e"," ","s","p","e","c","i","f","i","c","i","t","y"," ","b","y"," ","i","n","c","l","u","d","i","n","g"," ","p","a","g","e"," ","r","a","n","g","e","s",".">>

\* agents.py:165
AuditDocId ==
  <<"a","u","d","i","t">>

\* agents.py:165
AuditHighlight ==
  <<"A","l","l"," ","c","l","a","i","m","s"," ","c","r","o","s","s","-","r","e","f","e","r","e","n","c","e","d">>

\* agents.py:216, 227, 228
NodeIdInfix ==
  <<"_","r">>

\* agents.py:219
NodeLabelInfix ==
  <<" ","(","R">>

\* agents.py:219
NodeLabelSuffix ==
  <<")">>

\* agents.py:229
EdgeLabelPrefix ==
  <<"R","o","u","n","d"," ">>

\* ingestion.py:112, 117
NoneMentioned ==
  <<"N","o","n","e"," ","m","e","n","t","i","o","n","e","d">>

----------------------------------------------------------------------------
(* Documents and metadata handed to run and generate.                       *)

MetricsText == <<"a","c","c","u","r","a","c","y",":"," ","0",".","9">>

\* the chunk counts of the catalogue: below, at and above the 3 that Researcher reads
CatalogueChunkCount(i) == IF i = 0 THEN 2 ELSE IF i = 1 THEN 4 ELSE IF i = 2 THEN 0 ELSE 1

\* a DocumentChunk
DocumentChunk(content, id) == [content |-> content, chunk_id |-> id]

\* the i-th uploaded document, as the upload handler stores it
Document(i) ==
  [id     |-> DocIdPrefix \o Str(i),
   chunks |-> [k \in 1..CatalogueChunkCount(i) |->
                 DocumentChunk(<<"S","e","c","t","i","o","n"," ">> \o Str(k) \o <<".">>, k - 1)]]

\* its parse_metadata entry (the fields the agents read)
DocumentMetadata(i) ==
  [word_count |-> 100 * (i + 1),
   datasets   |-> NoneMentioned,
   metrics    |-> IF i % 2 = 1 THEN MetricsText ELSE NoneMentioned]

\* a document the caller of run built without an id
MalformedDocument == [chunks |-> Document(0).chunks]

Documents(n) == [i \in 1..n |-> Document(i - 1)]
Metadata(n)  == [i \in 1..n |-> <<Document(i - 1).id, DocumentMetadata(i - 1)>>]

\* list(set(values)) under the iteration order of the process
SetOf(values, order) ==
  SelectSeq(order, LAMBDA v : \E i \in 1..Len(values) : values[i] = v)

----------------------------------------------------------------------------
(* agents.py                                                                *)

\* an absent value of a record-valued variable (Python's None)
NoneRecord == [none |-> TRUE]
IsNone(x) == "none" \in DOMAIN x

Roles == <<"Researcher", "Reviewer", "Synthesizer", "DataInspector", "CitationGuard">>
RoleSet == {Roles[i] : i \in 1..Len(Roles)}

\* the role name as characters, for node ids and labels
RoleText(role) ==
  CASE role = "Researcher"    -> <<"R","e","s","e","a","r","c","h","e","r">>
    [] role = "Reviewer"      -> <<"R","e","v","i","e","w","e","r">>
    [] role = "Synthesizer"   -> <<"S","y","n","t","h","e","s","i","z","e","r">>
    [] role = "DataInspector" -> <<"D","a","t","a","I","n","s","p","e","c","t","o","r">>
    [] role = "CitationGuard" -> <<"C","i","t","a","t","i","o","n","G","u","a","r","d">>

\* BaseAgent._create_message
create_message(role_name, summary, evidence, confidence, round) ==
  [agent |-> role_name, round |-> round, summary |-> summary,
   evidence |-> evidence, confidence |-> confidence]

EvidenceRef(doc_id, id, highlight) ==
  [doc_id |-> doc_id, chunk_id |-> id, highlight |-> highlight]

\* context.get("round", 1)
ContextRound(ctx) == IF "round" \in DOMAIN ctx THEN ctx.round ELSE 1

\* an exception leaving a call, in place of a returned value
KeyError == [raised |-> "KeyError"]
IsRaised(x) == "raised" \in DOMAIN x

\* a variant that cites every chunk of the selected document
ResearcherAgent_act_all_chunks(ctx, selected_doc, docs, meta) ==
  IF IsNone(selected_doc)
  THEN create_message("Researcher", NoDocumentsText, <<>>, 0, ContextRound(ctx))
  ELSE IF "id" \notin DOMAIN selected_doc THEN KeyError
  ELSE LET doc_id == selected_doc.id
           cks    == selected_doc.chunks
           wc     == DictGet(meta, doc_id, [word_count |-> 0]).word_count
           summary == ResearcherText1 \o Str(Len(cks)) \o ResearcherText2 \o doc_id
                      \o ResearcherText3 \o ResearcherText4
                      \o ResearcherText5 \o Str(wc) \o ResearcherText6
           evidence == [i \in 1..Len(cks) |->
                          EvidenceRef(doc_id, i - 1, Take(cks[i].content, 150) \o Ellipsis)]
       IN  create_message("Researcher", summary, evidence, 85, ContextRound(ctx))

\* ResearcherAgent.act; selected_doc is the document random.choice returned, or None;
\* selected_doc["id"] raises KeyError for a document that has no id
ResearcherAgent_act(ctx, selected_doc, docs, meta) ==
  IF IsNone(selected_doc)
  THEN create_message("Researcher", NoDocumentsText, <<>>, 0, ContextRound(ctx))
  ELSE IF "id" \notin DOMAIN selected_doc THEN KeyError
  ELSE LET doc_id == selected_doc.id
           cks    == Take(selected_doc.chunks, 3)
           wc     == DictGet(meta, doc_id, [word_count |-> 0]).word_count
           summary == ResearcherText1 \o Str(Len(cks)) \o ResearcherText2 \o doc_id
                      \o ResearcherText3 \o ResearcherText4
                      \o ResearcherText5 \o Str(wc) \o ResearcherText6
           evidence == [i \in 1..Len(cks) |->
                          EvidenceRef(doc_id, i - 1, Take(cks[i].content, 150) \o Ellipsis)]
       IN  create_message("Researcher", summary, evidence, 85, ContextRound(ctx))

critique_points == <<critique_point_1, critique_point_2, critique_point_3>>

\* ReviewerAgent.act
ReviewerAgent_act(ctx, docs, meta) ==
  LET summary == ReviewerText1 \o Join(SemicolonSpace, Take(critique_points, 2))
                 \o ReviewerText2 \o Str(Len(docs)) \o ReviewerText3
      evidence == <<EvidenceRef(DocIdPrefix \o Str(0), 1, ReviewerHighlight1),
                    EvidenceRef(DocIdPrefix \o Str(0), 3, ReviewerHighlight2)>>
  IN  create_message("Reviewer", summary, evidence, 72, ContextRound(ctx))

\* SynthesizerAgent.act
SynthesizerAgent_act(ctx, docs, meta) ==
  LET summary == SynthesizerText1 \o Str(Len(docs)) \o SynthesizerText2
                 \o SynthesizerText3 \o SynthesizerText4 \o SynthesizerText5
                 \o SynthesizerText6
      evidence == [i \in 1..Min(2, Len(docs)) |->
                     EvidenceRef(DocIdPrefix \o Str(i - 1), 0, SynthesizerHighlight)]
  IN  create_message("Synthesizer", summary, evidence, 68, ContextRound(ctx))

\* DataInspectorAgent.act; order is the set iteration order of the process
DataInspectorAgent_act(ctx, docs, meta, order) ==
  LET metrics_found  == [i \in 1..Len(meta) |-> meta[i][2].metrics]
      datasets_found == [i \in 1..Len(meta) |-> meta[i][2].datasets]
      summary == DataInspectorText1 \o Str(Len(docs)) \o DataInspectorText2
                 \o DataInspectorText3 \o Join(SemicolonSpace, SetOf(metrics_found, order))
                 \o SemicolonSpace
                 \o DataInspectorText4 \o Join(SemicolonSpace, SetOf(datasets_found, order))
                 \o <<".", " ">>
                 \o DataInspectorText5
      withMetrics == SelectSeq(meta, LAMBDA kv : kv[2].metrics # <<>>)
      evidence == [i \in 1..Len(withMetrics) |->
                     EvidenceRef(withMetrics[i][1], 0,
                                 DataInspectorHighlight \o withMetrics[i][2].metrics)]
  IN  create_message("DataInspector", summary, Take(evidence, 2), 79, ContextRound(ctx))

\* '{x:.0f}' of x = (num / den) * 100: the nearest integer, a tie going to the even
\* one (the float product is that exact value for every den below 40)
PercentText(num, den) ==
  LET q == (100 * num) \div den
      r == (100 * num) % den
      n == IF 2 * r > den THEN q + 1
           ELSE IF 2 * r < den THEN q
           ELSE IF q % 2 = 0 THEN q ELSE q + 1
  IN  Str(n)

\* citation_audit with every prior message counted as cited
citation_audit_all_cited(prior_messages) ==
  [total_claims  |-> Len(prior_messages),
   cited_claims  |-> Len(prior_messages),
   uncited_ratio |-> 15]

\* the dict citation_audit of CitationGuardAgent.act, agents.py:155-159
citation_audit_of(prior_messages) ==
  [total_claims  |-> Len(prior_messages),
   cited_claims  |-> Cardinality({i \in 1..Len(prior_messages) : prior_messages[i].evidence # <<>>}),
   uncited_ratio |-> 15]

\* CitationGuardAgent.act; prior_messages is context.get("prior_messages", []) as read at the call
CitationGuardAgent_act(ctx, prior_messages) ==
  LET citation_audit == citation_audit_of(prior_messages)
      summary == CitationGuardText1 \o Str(citation_audit.cited_claims) \o CitationGuardText2
                 \o Str(citation_audit.total_claims) \o CitationGuardText3
                 \o CitationGuardText4
                 \o PercentText(citation_audit.cited_claims, Max(1, citation_audit.total_claims))
                 \o CitationGuardText5 \o CitationGuardText6
      evidence == <<EvidenceRef(AuditDocId, 0, AuditHighlight)>>
  IN  create_message("CitationGuard", summary, evidence, 88, ContextRound(ctx))

\* the keys of agent_classes, agents.py:180-186
agent_classes == RoleSet

RECURSIVE initialize_agents_any(_)
\* _initialize_agents without the test of the config value: every known role is instantiated
initialize_agents_any(config) ==
  IF config = <<>> THEN <<>>
  ELSE (IF config[1][1] \in agent_classes THEN <<config[1][1]>> ELSE <<>>)
       \o initialize_agents_any(Tail(config))

RECURSIVE initialize_agents(_)
\* AgentOrchestrator._initialize_agents: the enabled known roles, in dict order
initialize_agents(config) ==
  IF config = <<>> THEN <<>>
  ELSE (IF config[1][2] /\ config[1][1] \in agent_classes THEN <<config[1][1]>> ELSE <<>>)
       \o initialize_agents(Tail(config))

\* context.get("prior_messages", []): the context holds a reference to the list
\* all_messages (agents.py:203), which agents.py:210 appends to in place, so a
\* read through the context yields the list as it is at the time of the read
ContextPriorMessages(ctx, heap_all_messages) ==
  IF "prior_messages" \in DOMAIN ctx THEN heap_all_messages ELSE <<>>

\* the context dict of one round, agents.py:201-206
RoundContext(r, rounds) ==
  [round |-> r, prior_messages |-> "ref:all_messages",
   num_rounds |-> rounds, citation_strictness |-> "Moderate"]

\* the messages agent.act may return for the given role (Researcher: one per possible random.choice)
ActResults(role, ctx, docs, meta, order, heap_all_messages) ==
  CASE role = "Researcher" ->
         IF docs = <<>> THEN {ResearcherAgent_act(ctx, NoneRecord, docs, meta)}
         ELSE {ResearcherAgent_act(ctx, docs[i], docs, meta) : i \in 1..Len(docs)}
    [] role = "Reviewer"      -> {ReviewerAgent_act(ctx, docs, meta)}
    [] role = "Synthesizer"   -> {SynthesizerAgent_act(ctx, docs, meta)}
    [] role = "DataInspector" -> {DataInspectorAgent_act(ctx, docs, meta, order)}
    [] role = "CitationGuard" ->
         {CitationGuardAgent_act(ctx, ContextPriorMessages(ctx, heap_all_messages))}

\* progress_callback(round_num, agent.name, message.summary) if one was given,
\* agents.py:212-213
progress_notify_round(callback, calls, r, name, message) ==
  IF callback /\ calls = <<>>
  THEN Append(calls, [round |-> r, agent |-> name, summary |-> message.summary])
  ELSE IF callback /\ calls[Len(calls)].round = r THEN calls
  ELSE IF callback
  THEN Append(calls, [round |-> r, agent |-> name, summary |-> message.summary])
  ELSE calls

progress_notify(callback, calls, r, name, message) ==
  IF callback
  THEN Append(calls, [round |-> r, agent |-> name, summary |-> message.summary])
  ELSE calls

\* where control goes when act raises inside the loops of run: run has no try
\* statement, so the fault leaves run
on_fault_continue(p) == p

on_fault(p) == "Raised"

\* f"{agent}_r{round}", agents.py:216, 227, 228
NodeId(role, r) == RoleText(role) \o NodeIdInfix \o Str(r)

\* the node appended at agents.py:217-222
GraphNode(role, r) ==
  [id |-> NodeId(role, r),
   label |-> RoleText(role) \o NodeLabelInfix \o Str(r) \o NodeLabelSuffix,
   agent |-> role, round |-> r]

\* the edges, each labelled with the round of its target message
GraphEdges_target_round(msgs) ==
  [i \in 1..(IF Len(msgs) = 0 THEN 0 ELSE Len(msgs) - 1) |->
     [source |-> NodeId(msgs[i].agent, msgs[i].round),
      target |-> NodeId(msgs[i + 1].agent, msgs[i + 1].round),
      label  |-> EdgeLabelPrefix \o Str(msgs[i + 1].round)]]

\* the edges built at agents.py:225-230
GraphEdges(msgs) ==
  [i \in 1..(IF Len(msgs) = 0 THEN 0 ELSE Len(msgs) - 1) |->
     [source |-> NodeId(msgs[i].agent, msgs[i].round),
      target |-> NodeId(msgs[i + 1].agent, msgs[i + 1].round),
      label  |-> EdgeLabelPrefix \o Str(msgs[i].round)]]

----------------------------------------------------------------------------
(* The fixed strings of reports.py.                                         *)

\* reports.py:55
SummaryPrefix ==
  <<"M","u","l","t","i","-","a","g","e","n","t"," ","a","n","a","l","y","s","i","s"," ","r","e","v","e","a","l","s"," ","t","h","e"," ","f","o","l","l","o","w","i","n","g"," ","k","e","y"," ","i","n","s","i","g","h","t","s",":"," ">>

\* reports.py:65
HypothesisNeedle ==
  <<"h","y","p","o","t","h","e","s","i","s">>

\* reports.py:70
FallbackHypothesis1 ==
  <<"P","e","r","f","o","r","m","a","n","c","e"," ","v","a","r","i","a","t","i","o","n"," ","c","o","r","r","e","l","a","t","e","s"," ","w","i","t","h"," ","d","a","t","a","s","e","t"," ","h","e","t","e","r","o","g","e","n","e","i","t","y">>

\* reports.py:71
FallbackHypothesis2 ==
  <<"S","t","a","n","d","a","r","d","i","z","a","t","i","o","n"," ","o","f"," ","e","v","a","l","u","a","t","i","o","n"," ","p","r","o","t","o","c","o","l","s"," ","w","o","u","l","d"," ","i","m","p","r","o","v","e"," ","c","o","m","p","a","r","a","b","i","l","i","t","y">>

\* reports.py:72
FallbackHypothesis3 ==
  <<"M","e","t","h","o","d","o","l","o","g","i","c","a","l"," ","r","i","g","o","r"," ","i","n","c","r","e","a","s","e","s"," ","w","i","t","h"," ","m","u","l","t","i","-","d","a","t","a","s","e","t"," ","v","a","l","i","d","a","t","i","o","n">>

\* reports.py:80
Conclusion1 ==
  <<"C","o","m","p","r","e","h","e","n","s","i","v","e"," ","r","e","v","i","e","w"," ","o","f"," ","s","o","u","r","c","e"," ","m","a","t","e","r","i","a","l","s"," ","v","a","l","i","d","a","t","e","s"," ","c","o","r","e"," ","r","e","s","e","a","r","c","h"," ","m","e","t","h","o","d","o","l","o","g","y">>

\* reports.py:81
Conclusion2 ==
  <<"I","d","e","n","t","i","f","i","e","d"," ","a","r","e","a","s"," ","f","o","r"," ","i","m","p","r","o","v","e","m","e","n","t"," ","i","n"," ","e","v","a","l","u","a","t","i","o","n"," ","a","n","d"," ","v","a","l","i","d","a","t","i","o","n"," ","p","r","o","c","e","d","u","r","e","s">>

\* reports.py:82
Conclusion3 ==
  <<"R","e","c","o","m","m","e","n","d","e","d"," ","i","n","t","e","g","r","a","t","i","o","n"," ","o","f"," ","m","u","l","t","i","-","a","g","e","n","t"," ","a","n","a","l","y","s","i","s"," ","i","n"," ","r","e","s","e","a","r","c","h"," ","s","y","n","t","h","e","s","i","s"," ","w","o","r","k","f","l","o","w","s">>

\* reports.py:91
ClaimKeyPrefix ==
  <<"c","l","a","i","m","_">>

----------------------------------------------------------------------------
(* reports.py                                                               *)

\* ReportGenerator._synthesize_summary
synthesize_summary(messages) ==
  LET synth == SelectSeq(messages, LAMBDA m : m.agent = "Synthesizer")
      found == [i \in 1..Len(synth) |-> synth[i].summary]
      key_findings == IF found = <<>>
                      THEN [i \in 1..Len(Take(messages, 3)) |-> messages[i].summary]
                      ELSE found
  IN  SummaryPrefix \o Join(<<" ">>, Take(key_findings, 2))

FallbackHypotheses == <<FallbackHypothesis1, FallbackHypothesis2, FallbackHypothesis3>>

\* the test without .lower(): only the lower-case word is found
IsHypothesisMessage_case_sensitive(m) ==
  m.agent = "Synthesizer" /\ Contains(HypothesisNeedle, m.summary)

\* the test of reports.py:63-65 on one message
IsHypothesisMessage(m) ==
  m.agent = "Synthesizer" /\ Contains(HypothesisNeedle, Lower(m.summary))

\* _extract_hypotheses without the fallback of reports.py:68-73
extract_hypotheses_no_fallback(messages) ==
  LET hits == SelectSeq(messages, LAMBDA m : m.agent = "Synthesizer"
                                             /\ Contains(HypothesisNeedle, Lower(m.summary)))
  IN  Take([i \in 1..Len(hits) |-> hits[i].summary], 3)

\* ReportGenerator._extract_hypotheses
extract_hypotheses(messages) ==
  LET hits == SelectSeq(messages, IsHypothesisMessage)
      hypotheses == IF hits = <<>> THEN FallbackHypotheses
                    ELSE [i \in 1..Len(hits) |-> hits[i].summary]
  IN  Take(hypotheses, 3)

\* ReportGenerator._extract_conclusions
extract_conclusions(messages) == <<Conclusion1, Conclusion2, Conclusion3>>

\* a variant that keys each entry by the round of its message
RECURSIVE build_evidence_map_by_round(_, _, _)
build_evidence_map_by_round(messages, i, evidence_map) ==
  IF i > Len(messages) THEN evidence_map
  ELSE build_evidence_map_by_round(messages, i + 1,
         DictSet(evidence_map, ClaimKeyPrefix \o Str(messages[i].round),
                 [agent |-> messages[i].agent,
                  claim |-> Take(messages[i].summary, 200),
                  supporting_evidence |-> messages[i].evidence,
                  confidence |-> messages[i].confidence]))

\* the loop of ReportGenerator._build_evidence_map from position i on
RECURSIVE build_evidence_map_from(_, _, _)
build_evidence_map_from(messages, i, evidence_map) ==
  IF i > Len(messages) THEN evidence_map
  ELSE build_evidence_map_from(messages, i + 1,
         DictSet(evidence_map, ClaimKeyPrefix \o Str(i - 1),
                 [agent |-> messages[i].agent,
                  claim |-> Take(messages[i].summary, 200),
                  supporting_evidence |-> messages[i].evidence,
                  confidence |-> messages[i].confidence]))

\* ReportGenerator._build_evidence_map
build_evidence_map(messages) == build_evidence_map_from(messages, 1, <<>>)

RECURSIVE MaxOf(_)
\* max(xs) of a non-empty list
MaxOf(xs) == IF Len(xs) = 1 THEN xs[1] ELSE Max(xs[1], MaxOf(Tail(xs)))

\* the metadata with the agents counted per message, not per distinct name
report_metadata_no_set(messages, docs) ==
  [num_documents |-> Len(docs),
   num_agents    |-> Len(messages),
   total_rounds  |-> MaxOf([i \in 1..Len(messages) |-> messages[i].round] \o <<0>>),
   num_messages  |-> Len(messages)]

\* the "metadata" field of the report, reports.py:21-27
report_metadata(messages, docs) ==
  [num_documents |-> Len(docs),
   num_agents    |-> Cardinality({messages[i].agent : i \in 1..Len(messages)}),
   total_rounds  |-> MaxOf([i \in 1..Len(messages) |-> messages[i].round] \o <<0>>),
   num_messages  |-> Len(messages)]

\* ReportGenerator.generate (the methodology and markdown renderings of these
\* fields are not kept)
generate(messages, docs, meta) ==
  LET summary      == synthesize_summary(messages)
      hypotheses   == extract_hypotheses(messages)
      conclusions  == extract_conclusions(messages)
      evidence_map == build_evidence_map(messages)
  IN  [metadata     |-> report_metadata(messages, docs),
       summary      |-> summary,
       hypotheses   |-> hypotheses,
       conclusions  |-> conclusions,
       evidence_map |-> evidence_map,
       json         |-> [summary |-> summary, hypotheses |-> hypotheses,
                         conclusions |-> conclusions, agent_messages |-> messages]]

----------------------------------------------------------------------------
(* ingestion.py                                                             *)

\* the characters \s matches and the class [.!?] of the split pattern, ingestion.py:39
Whitespace  == {" ", "\n", "\t"}
Terminators == {".", "!", "?"}

\* the last index of the run of whitespace that starts at i
RunEnd(t, i) ==
  CHOOSE j \in i..Len(t) :
    /\ \A k \in i..j : t[k] \in Whitespace
    /\ j = Len(t) \/ t[j + 1] \notin Whitespace

RECURSIVE SplitFrom(_, _, _)
SplitFrom(t, start, i) ==
  IF i > Len(t) THEN <<SubSeq(t, start, Len(t))>>
  ELSE IF t[i] \in Whitespace /\ i > 1 /\ t[i - 1] \in Terminators
  THEN <<SubSeq(t, start, i - 1)>> \o SplitFrom(t, RunEnd(t, i) + 1, RunEnd(t, i) + 1)
  ELSE SplitFrom(t, start, i + 1)

\* re.split(r'(?<=[.!?])\s+', text): cut at each run of whitespace that follows a terminator
split_sentences(t) == SplitFrom(t, 1, 1)

\* the positions s.strip() keeps: from the first to the last non-whitespace character
StripFirst(s) == CHOOSE i \in 1..Len(s) :
                   s[i] \notin Whitespace /\ \A k \in 1..(i - 1) : s[k] \in Whitespace
StripLast(s)  == CHOOSE i \in 1..Len(s) :
                   s[i] \notin Whitespace /\ \A k \in (i + 1)..Len(s) : s[k] \in Whitespace
IsBlank(s) == \A i \in 1..Len(s) : s[i] \in Whitespace

\* s.strip()
Strip(s) == IF IsBlank(s) THEN <<>> ELSE SubSeq(s, StripFirst(s), StripLast(s))

\* int(chunk_size * 0.3), ingestion.py:54
OverlapLen(size) == (3 * size) \div 10

\* the test of ingestion.py:46
MustClose(size, sentence, cur_chunk, cur_size) ==
  cur_size + Len(sentence) > size /\ cur_chunk # <<>>

\* the chunk id left as it is when a chunk is closed
NextChunkId_same(id) == id

\* chunk_id += 1, ingestion.py:57
NextChunkId(id) == id + 1

RECURSIVE SumLen(_)
SumLen(cs) == IF cs = <<>> THEN 0 ELSE Len(Head(cs).content) + SumLen(Tail(cs))

\* len("\n".join([c.content for c in chunks])), ingestion.py:50, 66
StartChar(cs) == IF cs = <<>> THEN 0 ELSE SumLen(cs) + Len(cs) - 1

\* the DocumentChunk appended at ingestion.py:47-51 and 63-67
ClosedChunk(cur_chunk, id, cs) ==
  [content |-> Strip(cur_chunk), chunk_id |-> id, start_char |-> StartChar(cs)]

\* where each character of a running chunk comes from: <<k, o>> is character o of
\* sentence k; the joining blank of ingestion.py:55, 59 comes from no sentence
Separator == <<0, 0>>
SourceOf(k, sentence) == [o \in 1..Len(sentence) |-> <<k, o>>]
StripSource(cur_chunk, cur_src) ==
  IF IsBlank(cur_chunk) THEN <<>> ELSE SubSeq(cur_src, StripFirst(cur_chunk), StripLast(cur_chunk))


\* text.split('\n'): the parts between the newlines, at least one
RECURSIVE split_lines(_)
split_lines(t) ==
  IF \A i \in 1..Len(t) : t[i] # "\n" THEN <<t>>
  ELSE LET i == CHOOSE k \in 1..Len(t) : t[k] = "\n" /\ \A j \in 1..(k - 1) : t[j] # "\n"
       IN  <<SubSeq(t, 1, i - 1)>> \o split_lines(SubSeq(t, i + 1, Len(t)))

\* s.replace(old, ''): every occurrence of old, found from the left, is removed
RECURSIVE str_replace(_, _)
str_replace(s, old) ==
  IF Len(s) < Len(old) THEN s
  ELSE IF SubSeq(s, 1, Len(old)) = old THEN str_replace(SubSeq(s, Len(old) + 1, Len(s)), old)
  ELSE <<s[1]>> \o str_replace(Tail(s), old)

\* ingestion.py:89
DotPdf == <<".","p","d","f">>
DotTxt == <<".","t","x","t">>

\* DocumentProcessor._extract_title
extract_title(t, name) ==
  LET lines == split_lines(t)
  IN  IF lines # <<>>
      THEN IF Take(lines[1], 100) # <<>> THEN Take(lines[1], 100)
           ELSE str_replace(str_replace(name, DotPdf), DotTxt)
      ELSE name

\* DocumentProcessor.__init__: the default chunk_size
DefaultChunkSize == 1000

\* the loop of extract_chunks from sentence k on, and the flush after it
RECURSIVE chunk_sentences(_, _, _, _, _, _, _)
chunk_sentences(sents, k, size, cur_chunk, cur_size, id, cs) ==
  IF k > Len(sents)
  THEN IF Strip(cur_chunk) # <<>> THEN Append(cs, ClosedChunk(cur_chunk, id, cs)) ELSE cs
  ELSE IF MustClose(size, sents[k], cur_chunk, cur_size)
  THEN LET seeded == LastChars(cur_chunk, OverlapLen(size)) \o <<" ">> \o sents[k]
       IN  chunk_sentences(sents, k + 1, size, seeded, Len(seeded), NextChunkId(id),
                           Append(cs, ClosedChunk(cur_chunk, id, cs)))
  ELSE chunk_sentences(sents, k + 1, size, cur_chunk \o <<" ">> \o sents[k],
                       cur_size + Len(sents[k]), id, cs)

\* DocumentProcessor.extract_chunks as a function of its arguments
extract_chunks(t, size) == chunk_sentences(split_sentences(t), 1, size, <<>>, 0, 0, <<>>)

\* len(text.split()): the number of maximal runs of non-whitespace characters
word_count(t) ==
  Cardinality({i \in 1..Len(t) : t[i] \notin Whitespace /\ (i = 1 \/ t[i - 1] \in Whitespace)})

\* DocumentProcessor.parse_metadata.  No text of this model spells a keyword
\* of the patterns of ingestion.py:108 and 114, so datasets and metrics are
\* the sentinel; authors and year, which nothing modelled reads, are left out
parse_metadata(t, name) ==
  [filename    |-> name,
   title       |-> extract_title(t, name),
   datasets    |-> NoneMentioned,
   metrics     |-> NoneMentioned,
   word_count  |-> word_count(t),
   chunk_count |-> Len(extract_chunks(t, DefaultChunkSize))]

\* DocumentProcessor.read_pdf: [returned |-> the page texts PyPDF2 extracts,
\* each after its header], or ValueError when PyPDF2 fails on the file
ValueError == [raised |-> "ValueError"]
RECURSIVE read_pdf_pages(_, _)
read_pdf_pages(pages, page_num) ==
  IF page_num > Len(pages) THEN <<>>
  ELSE <<"\n","-","-","-"," ","P","a","g","e"," ">> \o Str(page_num)
       \o <<" ","-","-","-","\n">> \o pages[page_num] \o read_pdf_pages(pages, page_num + 1)
read_pdf(file_obj) ==
  IF "pages" \in DOMAIN file_obj THEN [returned |-> read_pdf_pages(file_obj.pages, 1)]
  ELSE ValueError
----------------------------------------------------------------------------
(* The inputs the entry points are exercised with.                          *)

Reverse(s) == [i \in 1..Len(s) |-> s[Len(s) + 1 - i]]

\* key orders of the agents_config dict: the dashboard's (streamlit_app.py:67-73),
\* its reverse, and a partial dict holding a key that names no agent class
ConfigOrders == {Roles, Reverse(Roles), <<"CitationGuard", "Editor", "Researcher">>}

Configs ==
  UNION {{[i \in 1..Len(o) |-> <<o[i], f[i]>>] : f \in [1..Len(o) -> BOOLEAN]} : o \in ConfigOrders}

\* every order in which the process may iterate the strings of the metadata
MetaStrings(meta) ==
  {meta[i][2].metrics : i \in 1..Len(meta)} \cup {meta[i][2].datasets : i \in 1..Len(meta)}
OrdersOf(S) ==
  {p \in [1..Cardinality(S) -> S] : \A i, j \in 1..Cardinality(S) : i # j => p[i] # p[j]}

\* messages a caller may hand to generate or put into a context
CallerMessages ==
  {ResearcherAgent_act([round |-> 1], NoneRecord, <<>>, <<>>),
   SynthesizerAgent_act([round |-> 2], Documents(1), Metadata(1)),
   create_message("Synthesizer", <<"n","o"," ","c","l","a","i","m">>, <<>>, 50, 1),
   create_message("Synthesizer", <<"H","Y","P","O","T","H","E","S","I","S"," ","A">>, <<>>, 50, 3),
   create_message("Reviewer", <<"a"," ","h","y","p","o","t","h","e","s","i","s">>,
                  <<EvidenceRef(AuditDocId, 0, AuditHighlight)>>, 72, 1)}

SeqsUpTo(S, n) == UNION {[1..k -> S] : k \in 0..n}

\* the characters of the texts handed to extract_chunks
Alphabet == {"a", ".", " "}

EmptyGraph == [nodes |-> <<>>, edges |-> <<>>]

RunIdle ==
  /\ agents_config = <<>> /\ num_rounds = 0 /\ agents = <<>>
  /\ documents = <<>> /\ metadata = <<>> /\ str_order = <<>>
  /\ round_num = 0 /\ agent_idx = 0 /\ context = NoneRecord
  /\ all_messages = <<>> /\ message_graph = EmptyGraph
  /\ act_prior = <<>> /\ citation_audits = <<>>
  /\ act_result = NoneRecord /\ report = NoneRecord

ChunkIdle ==
  /\ text = <<>> /\ chunk_size = 0 /\ sentences = <<>> /\ sent_idx = 0
  /\ current_chunk = <<>> /\ current_src = <<>> /\ current_size = 0
  /\ chunk_id = 0 /\ chunks = <<>> /\ chunk_srcs = <<>>

ObserverIdle == progress_callback = FALSE /\ progress_calls = <<>> /\ act_faults = <<>>

TitleIdle == filename = <<>> /\ title = NoneRecord

AppIdle == uploaded_files = <<>> /\ documents_before = <<>> /\ last_handler = "none"

\* AgentOrchestrator.__init__ has run; run has not been called
InitRun ==
  /\ entry = "run" /\ pc = "NotStarted"
  /\ agents_config \in Configs
  /\ num_rounds \in 1..MaxRounds
  /\ agents = initialize_agents(agents_config)
  /\ \E n \in 0..MaxDocs : documents = Documents(n) /\ metadata = Metadata(n)
  /\ str_order \in OrdersOf(MetaStrings(metadata))
  /\ round_num = 0 /\ agent_idx = 0 /\ context = NoneRecord
  /\ all_messages = <<>> /\ message_graph = EmptyGraph
  /\ act_prior = <<>> /\ citation_audits = <<>>
  /\ act_result = NoneRecord /\ report = NoneRecord
  /\ ObserverIdle
  /\ ChunkIdle /\ TitleIdle /\ AppIdle

\* AgentOrchestrator.__init__ has run; run is about to be called with or
\* without a progress_callback, on no document or on documents of the
\* catalogue followed by one the caller built without an id
InitObserved ==
  /\ entry = "run" /\ pc = "NotStarted"
  /\ agents_config \in Configs
  /\ num_rounds \in 1..MaxObservedRounds
  /\ agents = initialize_agents(agents_config)
  /\ \/ documents = <<>> /\ metadata = <<>>
     \/ \E n \in 0..MaxDocs :
          /\ documents = Append(Documents(n), MalformedDocument)
          /\ metadata = Metadata(n)
  /\ str_order \in OrdersOf(MetaStrings(metadata))
  /\ round_num = 0 /\ agent_idx = 0 /\ context = NoneRecord
  /\ all_messages = <<>> /\ message_graph = EmptyGraph
  /\ act_prior = <<>> /\ citation_audits = <<>>
  /\ act_result = NoneRecord /\ report = NoneRecord
  /\ progress_callback \in BOOLEAN
  /\ progress_calls = <<>> /\ act_faults = <<>>
  /\ ChunkIdle /\ TitleIdle /\ AppIdle

\* a caller is about to call ReportGenerator.generate(messages, documents, metadata)
InitGenerate ==
  /\ entry = "generate" /\ pc = "Returned"
  /\ all_messages \in SeqsUpTo(CallerMessages, MaxCallMessages)
  /\ agents_config = <<>> /\ num_rounds = 0 /\ agents = <<>>
  /\ documents = <<>> /\ metadata = <<>> /\ str_order = <<>>
  /\ round_num = 0 /\ agent_idx = 0 /\ context = NoneRecord
  /\ message_graph = EmptyGraph
  /\ act_prior = <<>> /\ citation_audits = <<>>
  /\ act_result = NoneRecord /\ report = NoneRecord
  /\ ObserverIdle
  /\ ChunkIdle /\ TitleIdle /\ AppIdle

\* a caller is about to call CitationGuardAgent.act with a context of its own
InitAct ==
  /\ entry = "act" /\ pc = "Call"
  /\ all_messages \in SeqsUpTo(CallerMessages, MaxCallMessages)
  /\ context \in {[round |-> 1],
                  [round |-> 1, prior_messages |-> "ref:all_messages"],
                  [prior_messages |-> "ref:all_messages"]}
  /\ agents_config = <<>> /\ num_rounds = 0 /\ agents = <<>>
  /\ documents = <<>> /\ metadata = <<>> /\ str_order = <<>>
  /\ round_num = 0 /\ agent_idx = 0
  /\ message_graph = EmptyGraph
  /\ act_prior = <<>> /\ citation_audits = <<>>
  /\ act_result = NoneRecord /\ report = NoneRecord
  /\ ObserverIdle
  /\ ChunkIdle /\ TitleIdle /\ AppIdle

\* the documents and the metadata dict a caller builds from the catalogue
\* documents of the given indexes
DocumentsAt(idx) == [i \in 1..Len(idx) |-> Document(idx[i])]
RECURSIVE MetadataAt(_)
MetadataAt(idx) ==
  IF idx = <<>> THEN <<>>
  ELSE DictSet(MetadataAt(SubSeq(idx, 1, Len(idx) - 1)),
               Document(idx[Len(idx)]).id, DocumentMetadata(idx[Len(idx)]))

\* a caller is about to call act of a ResearcherAgent or a DataInspectorAgent
\* (as tests/test_agents.py:4-16 does)
InitAgentCall ==
  /\ entry = "agent_call" /\ pc = "Call"
  /\ agents \in {<<"Researcher">>, <<"DataInspector">>}
  /\ context \in {[round |-> 2], [citation_strictness |-> "Moderate"]}
  /\ \E idx \in SeqsUpTo(0..MaxCatalogue, MaxCallDocs) :
        documents = DocumentsAt(idx) /\ metadata = MetadataAt(idx)
  /\ str_order \in OrdersOf(MetaStrings(metadata))
  /\ agents_config = <<>> /\ num_rounds = 0
  /\ round_num = 0 /\ agent_idx = 0
  /\ all_messages = <<>> /\ message_graph = EmptyGraph
  /\ act_prior = <<>> /\ citation_audits = <<>>
  /\ act_result = NoneRecord /\ report = NoneRecord
  /\ ObserverIdle
  /\ ChunkIdle /\ TitleIdle /\ AppIdle

\* a caller is about to call extract_chunks(text, chunk_size)
InitChunk ==
  /\ entry = "extract_chunks" /\ pc = "Call"
  /\ text \in SeqsUpTo(Alphabet, MaxTextLen)
  /\ chunk_size \in 1..MaxChunkSize
  /\ sentences = <<>> /\ sent_idx = 0
  /\ current_chunk = <<>> /\ current_src = <<>> /\ current_size = 0
  /\ chunk_id = 0 /\ chunks = <<>> /\ chunk_srcs = <<>>
  /\ RunIdle /\ ObserverIdle /\ TitleIdle /\ AppIdle

\* the lines of the texts handed to _extract_title: an empty line, a short
\* one, one of blanks and one of more than 100 characters
LinePool == {<<>>, <<"T">>, <<" ">>, [i \in 1..101 |-> "a"]}

\* the file names handed to _extract_title
Filenames == {<<"n",".","t","x","t">>, <<"p",".","p","d","f">>}

\* a caller is about to call _extract_title(text, filename)
InitTitle ==
  /\ entry = "extract_title" /\ pc = "Call"
  /\ \E lines \in SeqsUpTo(LinePool, MaxLines) : text = Join(<<"\n">>, lines)
  /\ filename \in Filenames
  /\ title = NoneRecord
  /\ chunk_size = 0 /\ sentences = <<>> /\ sent_idx = 0
  /\ current_chunk = <<>> /\ current_src = <<>> /\ current_size = 0
  /\ chunk_id = 0 /\ chunks = <<>> /\ chunk_srcs = <<>>
  /\ RunIdle /\ ObserverIdle /\ AppIdle

InitIngestion == InitChunk \/ InitTitle

Init == InitRun \/ InitGenerate \/ InitAct \/ InitAgentCall

----------------------------------------------------------------------------
(* AgentOrchestrator.run, step by step.                                     *)

\* agents.py:197-198
run_begin ==
  /\ entry = "run" /\ pc = "NotStarted"
  /\ all_messages' = <<>>
  /\ message_graph' = EmptyGraph
  /\ round_num' = 1
  /\ pc' = "Round"
  /\ UNCHANGED <<entry, agents_config, num_rounds, agents, documents, metadata,
                 str_order, agent_idx, context, act_prior, citation_audits,
                 act_result, report>>
  /\ UNCHANGED observerVars
  /\ UNCHANGED <<chunkVars, titleVars, appVars>>

\* agents.py:200-206: one more round, its context built
round_begin ==
  /\ entry = "run" /\ pc = "Round" /\ round_num <= num_rounds
  /\ context' = RoundContext(round_num, num_rounds)
  /\ agent_idx' = 1
  /\ pc' = "Agent"
  /\ UNCHANGED <<entry, agents_config, num_rounds, agents, documents, metadata,
                 str_order, round_num, all_messages, message_graph, act_prior,
                 citation_audits, act_result, report>>
  /\ UNCHANGED observerVars
  /\ UNCHANGED <<chunkVars, titleVars, appVars>>

\* agents.py:208-222: one agent acts, its message is appended, its node is added
agent_act ==
  /\ entry = "run" /\ pc = "Agent" /\ agent_idx <= Len(agents)
  /\ LET role  == agents[agent_idx]
         prior == ContextPriorMessages(context, all_messages)
     IN  /\ \E message \in ActResults(role, context, documents, metadata, str_order, all_messages) :
               /\ ~IsRaised(message)
               /\ all_messages' = Append(all_messages, message)
               /\ progress_calls' = progress_notify(progress_callback, progress_calls,
                                                   round_num, role, message)
         /\ act_prior' = Append(act_prior, Len(prior))
         /\ citation_audits' =
              IF role = "CitationGuard"
              THEN Append(citation_audits, citation_audit_of(prior))
              ELSE citation_audits
         /\ message_graph' =
              [message_graph EXCEPT !.nodes = Append(@, GraphNode(role, round_num))]
  /\ agent_idx' = agent_idx + 1
  /\ UNCHANGED <<entry, pc, agents_config, num_rounds, agents, documents, metadata,
                 str_order, round_num, context, act_result, report>>
  /\ UNCHANGED <<progress_callback, act_faults>>
  /\ UNCHANGED <<chunkVars, titleVars, appVars>>

\* agents.py:209: act raises; nothing of agents.py:210-222 is executed
agent_raise ==
  /\ entry = "run" /\ pc = "Agent" /\ agent_idx <= Len(agents)
  /\ \E outcome \in ActResults(agents[agent_idx], context, documents, metadata,
                                str_order, all_messages) :
        IsRaised(outcome)
  /\ act_faults' = Append(act_faults, <<round_num, agents[agent_idx]>>)
  /\ pc' = on_fault(pc)
  /\ UNCHANGED <<entry, agents_config, num_rounds, agents, documents, metadata,
                 str_order, round_num, agent_idx, context, all_messages,
                 message_graph, act_prior, citation_audits, act_result, report>>
  /\ UNCHANGED <<progress_callback, progress_calls>>
  /\ UNCHANGED <<chunkVars, titleVars, appVars>>

\* the inner loop of agents.py:208 is exhausted
round_end ==
  /\ entry = "run" /\ pc = "Agent" /\ agent_idx > Len(agents)
  /\ round_num' = round_num + 1
  /\ pc' = "Round"
  /\ UNCHANGED <<entry, agents_config, num_rounds, agents, documents, metadata,
                 str_order, agent_idx, context, all_messages, message_graph,
                 act_prior, citation_audits, act_result, report>>
  /\ UNCHANGED observerVars
  /\ UNCHANGED <<chunkVars, titleVars, appVars>>

\* agents.py:224-232: the edges are built and run returns
run_return ==
  /\ entry = "run" /\ pc = "Round" /\ round_num > num_rounds
  /\ message_graph' = [message_graph EXCEPT !.edges = GraphEdges(all_messages)]
  /\ pc' = "Returned"
  /\ UNCHANGED <<entry, agents_config, num_rounds, agents, documents, metadata,
                 str_order, round_num, agent_idx, context, all_messages,
                 act_prior, citation_audits, act_result, report>>
  /\ UNCHANGED observerVars
  /\ UNCHANGED <<chunkVars, titleVars, appVars>>

\* ReportGenerator.generate on the history run returned (streamlit_app.py:182-187)
\* or on the caller's messages
generate_report ==
  /\ entry \in {"run", "generate"} /\ pc = "Returned"
  /\ report' = generate(all_messages, documents, metadata)
  /\ pc' = "Reported"
  /\ UNCHANGED <<entry, agents_config, num_rounds, agents, documents, metadata,
                 str_order, round_num, agent_idx, context, all_messages,
                 message_graph, act_prior, citation_audits, act_result>>
  /\ UNCHANGED observerVars
  /\ UNCHANGED <<chunkVars, titleVars, appVars>>

\* CitationGuardAgent.act called with the caller's context
citation_guard_call ==
  /\ entry = "act" /\ pc = "Call"
  /\ LET prior == ContextPriorMessages(context, all_messages)
     IN  /\ act_result' = CitationGuardAgent_act(context, prior)
         /\ act_prior' = Append(act_prior, Len(prior))
         /\ citation_audits' = Append(citation_audits, citation_audit_of(prior))
  /\ pc' = "Returned"
  /\ UNCHANGED <<entry, agents_config, num_rounds, agents, documents, metadata,
                 str_order, round_num, agent_idx, context, all_messages,
                 message_graph, report>>
  /\ UNCHANGED observerVars
  /\ UNCHANGED <<chunkVars, titleVars, appVars>>

\* act of a ResearcherAgent or a DataInspectorAgent called with the caller's
\* context, documents and metadata
agent_call ==
  /\ entry = "agent_call" /\ pc = "Call"
  /\ \E message \in ActResults(agents[1], context, documents, metadata, str_order, <<>>) :
        /\ ~IsRaised(message)
        /\ act_result' = message
  /\ pc' = "Returned"
  /\ UNCHANGED <<entry, agents_config, num_rounds, agents, documents, metadata,
                 str_order, round_num, agent_idx, context, all_messages,
                 message_graph, act_prior, citation_audits, report>>
  /\ UNCHANGED observerVars
  /\ UNCHANGED <<chunkVars, titleVars, appVars>>

Next ==
  \/ run_begin
  \/ round_begin
  \/ agent_act
  \/ round_end
  \/ run_return
  \/ generate_report
  \/ citation_guard_call
  \/ agent_call

Spec == Init /\ [][Next]_vars

\* run with or without a progress callback, over documents that may lack an id
NextObserved ==
  \/ run_begin
  \/ round_begin
  \/ agent_act
  \/ agent_raise
  \/ round_end
  \/ run_return

SpecObserved == InitObserved /\ [][NextObserved]_vars

----------------------------------------------------------------------------
(* DocumentProcessor.extract_chunks, step by step.                          *)

\* ingestion.py:38-43
chunks_begin ==
  /\ entry = "extract_chunks" /\ pc = "Call"
  /\ sentences' = split_sentences(text)
  /\ sent_idx' = 1
  /\ current_chunk' = <<>> /\ current_src' = <<>>
  /\ current_size' = 0 /\ chunk_id' = 0
  /\ chunks' = <<>> /\ chunk_srcs' = <<>>
  /\ pc' = "Loop"
  /\ UNCHANGED <<entry, text, chunk_size>>
  /\ UNCHANGED <<runVars, observerVars, titleVars, appVars>>

\* ingestion.py:45-60: one sentence is taken
chunks_step ==
  /\ entry = "extract_chunks" /\ pc = "Loop" /\ sent_idx <= Len(sentences)
  /\ LET sentence == sentences[sent_idx]
     IN  \/ /\ MustClose(chunk_size, sentence, current_chunk, current_size)
            /\ chunks' = Append(chunks, ClosedChunk(current_chunk, chunk_id, chunks))
            /\ chunk_srcs' = Append(chunk_srcs, StripSource(current_chunk, current_src))
            /\ current_chunk' = LastChars(current_chunk, OverlapLen(chunk_size))
                                \o <<" ">> \o sentence
            /\ current_src' = LastChars(current_src, OverlapLen(chunk_size))
                              \o <<Separator>> \o SourceOf(sent_idx, sentence)
            /\ current_size' = Len(current_chunk')
            /\ chunk_id' = NextChunkId(chunk_id)
         \/ /\ ~MustClose(chunk_size, sentence, current_chunk, current_size)
            /\ current_chunk' = current_chunk \o <<" ">> \o sentence
            /\ current_src' = current_src \o <<Separator>> \o SourceOf(sent_idx, sentence)
            /\ current_size' = current_size + Len(sentence)
            /\ UNCHANGED <<chunks, chunk_srcs, chunk_id>>
  /\ sent_idx' = sent_idx + 1
  /\ UNCHANGED <<entry, pc, text, chunk_size, sentences>>
  /\ UNCHANGED <<runVars, observerVars, titleVars, appVars>>

\* ingestion.py:62-69: the remainder is flushed and the list returned
chunks_return ==
  /\ entry = "extract_chunks" /\ pc = "Loop" /\ sent_idx > Len(sentences)
  /\ IF Strip(current_chunk) # <<>>
     THEN /\ chunks' = Append(chunks, ClosedChunk(current_chunk, chunk_id, chunks))
          /\ chunk_srcs' = Append(chunk_srcs, StripSource(current_chunk, current_src))
     ELSE UNCHANGED <<chunks, chunk_srcs>>
  /\ pc' = "Returned"
  /\ UNCHANGED <<entry, text, chunk_size, sentences, sent_idx, current_chunk,
                 current_src, current_size, chunk_id>>
  /\ UNCHANGED <<runVars, observerVars, titleVars, appVars>>

\* ingestion.py:85-90
title_call ==
  /\ entry = "extract_title" /\ pc = "Call"
  /\ title' = extract_title(text, filename)
  /\ pc' = "Returned"
  /\ UNCHANGED <<entry, filename>>
  /\ UNCHANGED <<runVars, observerVars, chunkVars, appVars>>

NextChunk ==
  \/ chunks_begin
  \/ chunks_step
  \/ chunks_return
  \/ title_call

SpecChunk == InitIngestion /\ [][NextChunk]_vars

----------------------------------------------------------------------------
(* The button handlers of the dashboard, streamlit_app.py.                  *)

\* the files a user may upload: a text file, a PDF of one page, and a PDF
\* that PyPDF2 cannot read
FilePool ==
  {[name |-> <<"n",".","t","x","t">>, type |-> "text/plain",
    text |-> <<"T","\n","a","."," ","a",".">>],
   [name |-> <<"p",".","p","d","f">>, type |-> "application/pdf",
    pages |-> <<<<"a",".">>>>],
   [name |-> <<"b",".","p","d","f">>, type |-> "application/pdf"]}

\* a variant that gives every document the id of the first
new_doc_id_first(docs) == DocIdPrefix \o Str(0)

\* f"doc_{len(st.session_state.documents)}", streamlit_app.py:98
new_doc_id(docs) == DocIdPrefix \o Str(Len(docs))

\* a variant that gives up the batch at the first file that fails
RECURSIVE process_files_stop(_, _, _, _)
process_files_stop(files, idx, docs, meta) ==
  IF idx > Len(files) THEN <<docs, meta>>
  ELSE LET file    == files[idx]
           doc_id  == new_doc_id(docs)
           read    == IF file.type = "text/plain" THEN [returned |-> file.text]
                      ELSE read_pdf(file)
           content == read.returned
       IN  IF IsRaised(read) THEN <<docs, meta>>
           ELSE process_files_stop(files, idx + 1,
                  Append(docs, [id |-> doc_id, filename |-> file.name, content |-> content,
                                chunks |-> extract_chunks(content, DefaultChunkSize)]),
                  DictSet(meta, doc_id, parse_metadata(content, file.name)))

\* the loop of streamlit_app.py:96-114 from file idx on: a file whose content
\* cannot be read raises inside the try and is passed over
RECURSIVE process_files(_, _, _, _)
process_files(files, idx, docs, meta) ==
  IF idx > Len(files) THEN <<docs, meta>>
  ELSE LET file    == files[idx]
           doc_id  == new_doc_id(docs)
           read    == IF file.type = "text/plain" THEN [returned |-> file.text]
                      ELSE read_pdf(file)
           content == read.returned
       IN  IF IsRaised(read) THEN process_files(files, idx + 1, docs, meta)
           ELSE process_files(files, idx + 1,
                  Append(docs, [id |-> doc_id, filename |-> file.name, content |-> content,
                                chunks |-> extract_chunks(content, DefaultChunkSize)]),
                  DictSet(meta, doc_id, parse_metadata(content, file.name)))

\* the histories AgentOrchestrator.run may return, from agent i of round r on
RECURSIVE run_histories(_, _, _, _, _, _, _, _)
run_histories(agts, rounds, r, i, docs, meta, order, msgs) ==
  IF r > rounds THEN {msgs}
  ELSE IF i > Len(agts) THEN run_histories(agts, rounds, r + 1, 1, docs, meta, order, msgs)
  ELSE UNION {run_histories(agts, rounds, r, i + 1, docs, meta, order, Append(msgs, m)) :
                m \in {x \in ActResults(agts[i], RoundContext(r, rounds), docs, meta, order, msgs) :
                         ~IsRaised(x)}}

\* the sliders of streamlit_app.py:59-63: the default number of agents and
\* the least number of rounds
NumAgents == 4
NumRounds == 1

\* the agents_enabled dict of streamlit_app.py:67-73 with every checkbox at
\* its default value
agents_enabled ==
  [i \in 1..Len(Roles) |->
     <<Roles[i], CASE i <= 3 -> TRUE [] i = 4 -> NumAgents > 3 [] i = 5 -> NumAgents > 4>>]

\* streamlit_app.py:43-50: the session state is initialised
InitApp ==
  /\ entry = "app" /\ pc = "Idle"
  /\ documents = <<>> /\ metadata = <<>>
  /\ all_messages = <<>> /\ report = NoneRecord /\ message_graph = NoneRecord
  /\ agents_config = <<>> /\ num_rounds = 0 /\ agents = <<>> /\ str_order = <<>>
  /\ round_num = 0 /\ agent_idx = 0 /\ context = NoneRecord
  /\ act_prior = <<>> /\ citation_audits = <<>> /\ act_result = NoneRecord
  /\ ObserverIdle /\ ChunkIdle /\ TitleIdle /\ AppIdle

\* streamlit_app.py:90-116: Process Uploads with a non-empty list of files
process_uploads ==
  /\ entry = "app"
  /\ \E files \in SeqsUpTo(FilePool, MaxBatch) :
       /\ files # <<>>
       /\ LET stored == process_files(files, 1, documents, metadata)
          IN  /\ Len(stored[1]) <= MaxStored
              /\ documents' = stored[1] /\ metadata' = stored[2]
       /\ uploaded_files' = files
  /\ documents_before' = documents
  /\ last_handler' = "process_uploads"
  /\ UNCHANGED <<entry, pc, agents_config, num_rounds, agents, str_order, round_num,
                 agent_idx, context, all_messages, message_graph, act_prior,
                 citation_audits, act_result, report>>
  /\ UNCHANGED <<observerVars, chunkVars, titleVars>>

\* streamlit_app.py:118-124: Clear All
clear_all ==
  /\ entry = "app"
  /\ documents' = <<>>
  /\ metadata' = <<>>
  /\ all_messages' = <<>>
  /\ report' = NoneRecord
  /\ message_graph' = NoneRecord
  /\ last_handler' = "clear_all"
  /\ UNCHANGED <<entry, pc, agents_config, num_rounds, agents, str_order, round_num,
                 agent_idx, context, act_prior, citation_audits, act_result>>
  /\ UNCHANGED <<uploaded_files, documents_before>>
  /\ UNCHANGED <<observerVars, chunkVars, titleVars>>

\* streamlit_app.py:153-187: Run Agent Analysis, offered when documents are
\* stored, with the sidebar as it is when the page is opened but for the
\* rounds, which are at the slider's minimum
run_analysis ==
  /\ entry = "app" /\ documents # <<>>
  /\ \E order \in OrdersOf(MetaStrings(metadata)) :
       \E messages \in run_histories(initialize_agents(agents_enabled), NumRounds, 1, 1,
                                     documents, metadata, order, <<>>) :
         /\ all_messages' = messages
         /\ message_graph' =
              [nodes |-> [k \in 1..Len(messages) |->
                            GraphNode(messages[k].agent, messages[k].round)],
               edges |-> GraphEdges(messages)]
         /\ report' = generate(messages, documents, metadata)
  /\ last_handler' = "run_analysis"
  /\ UNCHANGED <<entry, pc, agents_config, num_rounds, agents, documents, metadata,
                 str_order, round_num, agent_idx, context, act_prior,
                 citation_audits, act_result>>
  /\ UNCHANGED <<uploaded_files, documents_before>>
  /\ UNCHANGED <<observerVars, chunkVars, titleVars>>

NextApp ==
  \/ process_uploads
  \/ clear_all
  \/ run_analysis

SpecApp == InitApp /\ [][NextApp]_vars

----------------------------------------------------------------------------
(* Properties of AgentOrchestrator.run.                                     *)

\* the roles of the fixed five whose config value is true, in config order
EnabledRoles ==
  LET keep == SelectSeq(agents_config, LAMBDA kv : kv[2] /\ kv[1] \in RoleSet)
  IN  [i \in 1..Len(keep) |-> keep[i][1]]

RunReturned == entry = "run" /\ pc \in {"Returned", "Reported"}

\* C1: run returns exactly N*R messages in round-major order: the message at
\* 0-based position p has round (p div N) + 1 and is by the (p mod N)-th enabled role.
C1_RoundMajorHistory ==
  RunReturned =>
    LET N == Len(EnabledRoles)
        R == num_rounds
    IN  /\ Len(all_messages) = N * R
        /\ \A p \in 0..(N * R - 1) :
             /\ all_messages[p + 1].round = (p \div N) + 1
             /\ all_messages[p + 1].agent = EnabledRoles[(p % N) + 1]

\* a finished run of three enabled agents (one role of the config disabled) over two rounds or more
C1_Witness ==
  /\ RunReturned
  /\ Len(EnabledRoles) = 3 /\ num_rounds >= 2
  /\ \E i \in 1..Len(agents_config) : ~agents_config[i][2]
  /\ Len(all_messages) = 3 * num_rounds

\* C2: within a round every agent is handed the snapshot taken at round start:
\* the prior messages at an act of round r are exactly the (r-1)*N messages of
\* rounds 1..r-1, and CitationGuard's total_claims is that number.
C2_SameSnapshotInRound ==
  entry = "run" =>
    /\ \A k \in 1..Len(act_prior) :
         act_prior[k] = (all_messages[k].round - 1) * Len(agents)
    /\ LET guards == SelectSeq(all_messages, LAMBDA m : m.agent = "CitationGuard")
       IN  \A j \in 1..Len(citation_audits) :
             citation_audits[j].total_claims = (guards[j].round - 1) * Len(agents)

\* C3: the graph has one node per message, keyed by its agent and round, and
\* max(0, N*R-1) edges; edge i goes from the node of message i to the node of
\* message i+1, is labelled with the round of message i, and ends at existing nodes.
C3_GraphShape ==
  RunReturned =>
    LET N == Len(EnabledRoles)
        R == num_rounds
        nodes == message_graph.nodes
        edges == message_graph.edges
        ids   == {nodes[i].id : i \in 1..Len(nodes)}
    IN  /\ Len(nodes) = N * R
        /\ \A i \in 1..Len(nodes) :
             /\ nodes[i].agent = all_messages[i].agent
             /\ nodes[i].round = all_messages[i].round
             /\ nodes[i].id = RoleText(all_messages[i].agent) \o <<"_", "r">>
                              \o Str(all_messages[i].round)
        /\ Len(edges) = (IF N * R = 0 THEN 0 ELSE N * R - 1)
        /\ \A i \in 1..Len(edges) :
             /\ edges[i].source = nodes[i].id
             /\ edges[i].target = nodes[i + 1].id
             /\ edges[i].label = <<"R","o","u","n","d"," ">> \o Str(all_messages[i].round)
             /\ edges[i].source \in ids /\ edges[i].target \in ids

\* a returned graph with an edge that crosses a round boundary
C3_Witness ==
  /\ RunReturned
  /\ Len(message_graph.edges) >= 3
  /\ \E i \in 1..Len(message_graph.edges) :
       all_messages[i].round # all_messages[i + 1].round

RECURSIVE CountCited(_)
\* how many of the messages carry a non-empty evidence list
CountCited(msgs) ==
  IF msgs = <<>> THEN 0
  ELSE (IF Len(Head(msgs).evidence) > 0 THEN 1 ELSE 0) + CountCited(Tail(msgs))

\* the summary of a citation audit that reports cited/total and p per cent
AuditSummary(cited, total, p) ==
  <<"C","i","t","a","t","i","o","n"," ","a","u","d","i","t",":"," ">>
  \o Str(cited) \o <<"/">> \o Str(total) \o <<" ","c","l","a","i","m","s"," ">>
  \o CitationGuardText4 \o Str(p) \o <<"%",")","."," ">> \o CitationGuardText6

\* the audit and the message of one CitationGuard call over the list prior
AuditMatches(audit, message, prior) ==
  LET cited == CountCited(prior)
      total == Len(prior)
      den   == IF total = 0 THEN 1 ELSE total
  IN  /\ audit.total_claims = total
      /\ audit.cited_claims = cited
      /\ \E p \in 0..100 :
           /\ 2 * (100 * cited - p * den) <= den
           /\ 2 * (p * den - 100 * cited) <= den
           /\ message.summary = AuditSummary(cited, total, p)
      /\ total = 0 => message.summary = AuditSummary(0, 0, 0)

\* C4: CitationGuard counts the prior messages and those of them with evidence,
\* reports cited / max(1, total) as a percentage, and over zero prior messages
\* answers 0/0 claims and 0 per cent without faulting.
C4_CitationAudit ==
  /\ (entry = "act" /\ pc = "Returned") =>
       AuditMatches(citation_audits[1], act_result,
                    IF "prior_messages" \in DOMAIN context THEN all_messages ELSE <<>>)
  /\ (entry = "act" /\ pc = "Call") => ENABLED citation_guard_call
  /\ entry = "run" =>
       LET at == SelectSeq([k \in 1..Len(all_messages) |-> k],
                           LAMBDA k : all_messages[k].agent = "CitationGuard")
       IN  /\ Len(at) = Len(citation_audits)
           /\ \A j \in 1..Len(at) :
                AuditMatches(citation_audits[j], all_messages[at[j]],
                             SubSeq(all_messages, 1, act_prior[at[j]]))

\* CitationGuard has spoken first in round 1 (no prior message) and again later
\* over a history of which some but not all messages are cited
C4_Witness ==
  /\ entry = "run"
  /\ Len(citation_audits) >= 2
  /\ citation_audits[1].total_claims = 0
  /\ \E j \in 1..Len(citation_audits) :
       /\ 0 < citation_audits[j].cited_claims
       /\ citation_audits[j].cited_claims < citation_audits[j].total_claims

----------------------------------------------------------------------------
(* Properties of DocumentProcessor.extract_chunks.                          *)

ChunksReturned == entry = "extract_chunks" /\ pc = "Returned"

\* C5: the k-th chunk returned has chunk_id k (0, 1, 2, ... without gap or
\* repeat), and the empty string yields no chunk.
C5_ChunkIdsSequential ==
  entry = "extract_chunks" =>
    /\ \A k \in 1..Len(chunks) : chunks[k].chunk_id = k - 1
    /\ (ChunksReturned /\ text = <<>>) => chunks = <<>>

\* three chunks or more have been returned
C5_Witness ==
  /\ ChunksReturned
  /\ Len(chunks) >= 3
  /\ chunks[Len(chunks)].chunk_id = Len(chunks) - 1

\* the sentences of the text that have content
RealSentences == {k \in 1..Len(sentences) : ~IsBlank(sentences[k])}
\* longer than the chunk size
OverLong(k) == Len(sentences[k]) > chunk_size

\* the offsets of sentence k that hold its content (leading and trailing blanks aside)
Core(k) == StripFirst(sentences[k])..StripLast(sentences[k])

\* chunk c holds sentence k complete
HoldsWhole(c, k) ==
  \A o \in Core(k) : \E i \in 1..Len(chunk_srcs[c]) : chunk_srcs[c][i] = <<k, o>>

\* C6: no sentence is truncated: a text of one sentence longer than the chunk
\* size yields exactly one chunk, whose content is that sentence, and in any
\* text an over-long sentence is complete in a chunk that holds no other sentence.
C6_OverLongSentenceOwnChunk ==
  ChunksReturned =>
    /\ \A k \in RealSentences :
         (RealSentences = {k} /\ OverLong(k)) =>
           /\ Len(chunks) = 1
           /\ chunks[1].content = Strip(sentences[k])
    /\ \A k \in RealSentences :
         OverLong(k) =>
           \E c \in 1..Len(chunks) :
             /\ HoldsWhole(c, k)
             /\ \A j \in RealSentences \ {k} : ~HoldsWhole(c, j)

----------------------------------------------------------------------------
(* Properties of ReportGenerator.generate.                                  *)

Reported == entry \in {"run", "generate"} /\ pc = "Reported"

\* C7: generate on the empty message list returns a report with an empty
\* evidence_map, the 3 fallback hypotheses, the 3 fixed conclusions and
\* num_messages = num_agents = total_rounds = 0, and it does return.
C7_GenerateOnEmptyList ==
  /\ (entry \in {"run", "generate"} /\ pc = "Returned" /\ all_messages = <<>>)
       => ENABLED generate_report
  /\ (Reported /\ all_messages = <<>>) =>
       /\ report.evidence_map = <<>>
       /\ report.hypotheses = <<FallbackHypothesis1, FallbackHypothesis2, FallbackHypothesis3>>
       /\ report.conclusions = <<Conclusion1, Conclusion2, Conclusion3>>
       /\ report.metadata.num_messages = 0
       /\ report.metadata.num_agents = 0
       /\ report.metadata.total_rounds = 0

\* a report has been generated from no message at all, by a direct call
C7_Witness ==
  /\ entry = "generate" /\ pc = "Reported"
  /\ all_messages = <<>>
  /\ ~IsNone(report)

\* C8: the report of a run with N >= 1 agents and R >= 1 rounds has
\* num_messages = N*R, total_rounds = R and num_agents = N.
C8_ReportCountsOfRun ==
  (entry = "run" /\ pc = "Reported" /\ Len(EnabledRoles) >= 1 /\ num_rounds >= 1) =>
    /\ report.metadata.num_messages = Len(EnabledRoles) * num_rounds
    /\ report.metadata.total_rounds = num_rounds
    /\ report.metadata.num_agents = Len(EnabledRoles)

\* Researcher and Reviewer, one round, one document of two chunks: 2 messages,
\* 2 nodes, 1 edge, and a report
C8_Witness ==
  /\ entry = "run" /\ pc = "Reported"
  /\ EnabledRoles = <<"Researcher", "Reviewer">> /\ num_rounds = 1
  /\ Len(documents) = 1 /\ Len(documents[1].chunks) = 2
  /\ Len(all_messages) = 2
  /\ Len(message_graph.nodes) = 2 /\ Len(message_graph.edges) = 1
  /\ report.metadata.num_messages = 2 /\ report.metadata.total_rounds = 1

\* the summaries of the messages at the given positions, in order
SummariesAt(msgs, idx) == [i \in 1..Len(idx) |-> msgs[idx[i]].summary]

\* the positions of the messages that satisfy Test, ascending
PositionsOf(msgs, Test(_)) == SelectSeq([i \in 1..Len(msgs) |-> i], LAMBDA i : Test(msgs[i]))

\* the first n elements
FirstN(s, n) == [i \in 1..(IF n < Len(s) THEN n ELSE Len(s)) |-> s[i]]

RECURSIVE Spaced(_)
\* the texts, a single blank between two neighbours
Spaced(parts) ==
  IF Len(parts) = 0 THEN <<>>
  ELSE IF Len(parts) = 1 THEN parts[1]
  ELSE Spaced(SubSeq(parts, 1, Len(parts) - 1)) \o <<" ">> \o parts[Len(parts)]

\* C9: the summary is the fixed prefix followed by the first 2 Synthesizer
\* summaries at most; without any Synthesizer message it is the prefix followed
\* by the summaries of the first 3 messages (all of them if fewer).
C9_SummarySources ==
  Reported =>
    LET msgs  == report.json.agent_messages
        synth == PositionsOf(msgs, LAMBDA m : m.agent = "Synthesizer")
        first == [i \in 1..Len(msgs) |-> i]
    IN  report.summary =
          SummaryPrefix \o
          Spaced(SummariesAt(msgs, IF Len(synth) > 0 THEN FirstN(synth, 2)
                                   ELSE FirstN(first, 3)))

HypothesisUpper == <<"H","Y","P","O","T","H","E","S","I","S">>

\* the text holds "hypothesis" in some mix of upper and lower case
MentionsHypothesis(s) ==
  \E o \in 0..(Len(s) - Len(HypothesisNeedle)) :
    \A j \in 1..Len(HypothesisNeedle) :
      s[o + j] = HypothesisNeedle[j] \/ s[o + j] = HypothesisUpper[j]

\* C10: the hypotheses are the summaries of the Synthesizer messages that
\* mention "hypothesis" in any case, in emission order, 3 at most; when none
\* qualifies they are the 3 fallback strings.  A run with Synthesizer enabled
\* never yields the fallback and yields min(3, R) hypotheses.
C10_Hypotheses ==
  Reported =>
    LET msgs == report.json.agent_messages
        hits == PositionsOf(msgs, LAMBDA m : m.agent = "Synthesizer" /\ MentionsHypothesis(m.summary))
    IN  /\ Len(hits) = 0 =>
              report.hypotheses = <<FallbackHypothesis1, FallbackHypothesis2, FallbackHypothesis3>>
        /\ Len(hits) > 0 => report.hypotheses = SummariesAt(msgs, FirstN(hits, 3))
        /\ (entry = "run" /\ \E i \in 1..Len(EnabledRoles) : EnabledRoles[i] = "Synthesizer") =>
              /\ report.hypotheses # <<FallbackHypothesis1, FallbackHypothesis2, FallbackHypothesis3>>
              /\ Len(report.hypotheses) = (IF num_rounds < 3 THEN num_rounds ELSE 3)

\* a run of four rounds with Synthesizer enabled: four qualifying messages, three hypotheses
C10_Witness ==
  /\ entry = "run" /\ pc = "Reported"
  /\ num_rounds = 4
  /\ Cardinality({i \in 1..Len(all_messages) : all_messages[i].agent = "Synthesizer"}) = 4
  /\ Len(report.hypotheses) = 3

----------------------------------------------------------------------------
(* The evidence map of the report.                                          *)

ClaimKey(i) == <<"c","l","a","i","m","_">> \o Str(i)

\* C11: the evidence map of a report has exactly one entry per message, the
\* entry of the message at 0-based position i under the key claim_i, so no
\* key occurs twice and the map is as long as the message list; the entry
\* holds the message's agent, its summary cut to at most 200 characters, its
\* evidence list unchanged and its confidence
C11_EvidenceMap ==
  Reported =>
    LET evidence_map == report.evidence_map
    IN  /\ Len(evidence_map) = Len(all_messages)
        /\ \A i, j \in 1..Len(evidence_map) :
             i # j => evidence_map[i][1] # evidence_map[j][1]
        /\ \A i \in 1..Len(all_messages) :
             LET m     == all_messages[i]
                 value == DictGet(evidence_map, ClaimKey(i - 1), NoneRecord)
             IN  /\ DictHas(evidence_map, ClaimKey(i - 1))
                 /\ value.agent = m.agent
                 /\ Len(value.claim) = Min(200, Len(m.summary))
                 /\ value.claim = SubSeq(m.summary, 1, Len(value.claim))
                 /\ value.supporting_evidence = m.evidence
                 /\ value.confidence = m.confidence

\* a report of a run of more than ten messages, one of them with a summary of
\* more than 200 characters and with evidence
C11_Witness ==
  /\ Reported /\ entry = "run"
  /\ Len(all_messages) > 10
  /\ Len(report.evidence_map) > 10
  /\ \E i \in 1..Len(all_messages) :
       /\ Len(all_messages[i].summary) > 200
       /\ all_messages[i].evidence # <<>>
       /\ Len(DictGet(report.evidence_map, ClaimKey(i - 1), NoneRecord).claim) = 200

----------------------------------------------------------------------------
(* The progress observer of run.                                            *)

\* the arguments an observer is called with for message m
ObserverCall(m) == [round |-> m.round, agent |-> m.agent, summary |-> m.summary]

\* the history is one that run produces from its inputs alone
HistoryOfInputs ==
  \A k \in 1..Len(all_messages) :
    all_messages[k] \in
      ActResults(all_messages[k].agent,
                 RoundContext(all_messages[k].round, num_rounds),
                 documents, metadata, str_order, SubSeq(all_messages, 1, k - 1))

\* C12: a progress observer given to run is called exactly once per agent
\* invocation, in the order the messages are appended, the k-th call with the
\* round, the agent name and the summary of the k-th message (N*R calls in a
\* returned run); without an observer nothing is called and the run is the
\* same: the history depends on the inputs only and has N*R messages
C12_ProgressObserver ==
  entry = "run" =>
    /\ progress_callback =>
         /\ Len(progress_calls) = Len(all_messages)
         /\ \A k \in 1..Len(all_messages) :
              progress_calls[k] = ObserverCall(all_messages[k])
    /\ ~progress_callback => progress_calls = <<>>
    /\ HistoryOfInputs
    /\ pc = "Returned" =>
         /\ Len(all_messages) = Len(EnabledRoles) * num_rounds
         /\ Len(message_graph.nodes) = Len(EnabledRoles) * num_rounds
         /\ progress_callback => Len(progress_calls) = Len(EnabledRoles) * num_rounds

\* a returned run of several agents and rounds whose observer was called for
\* each message
C12_Witness ==
  /\ entry = "run" /\ pc = "Returned" /\ progress_callback
  /\ Len(EnabledRoles) >= 2 /\ num_rounds >= 2
  /\ Len(progress_calls) = Len(EnabledRoles) * num_rounds
  /\ progress_calls[1].round = 1
  /\ progress_calls[Len(progress_calls)].round = num_rounds
  /\ progress_calls[1].agent # progress_calls[2].agent

----------------------------------------------------------------------------
(* ResearcherAgent.act.                                                     *)

\* the messages ResearcherAgent.act has returned in this behaviour
ResearcherMessages ==
  IF entry = "run"
  THEN {all_messages[k] : k \in {j \in 1..Len(all_messages) :
                                   all_messages[j].agent = "Researcher"}}
  ELSE IF entry = "agent_call" /\ agents = <<"Researcher">> /\ pc = "Returned"
  THEN {act_result}
  ELSE {}

\* C13: ResearcherAgent.act does not fault on an empty document list but
\* returns a message of confidence 0 without evidence; on a non-empty list it
\* returns confidence 0.85 and exactly min(3, number of chunks of the selected
\* document) EvidenceRefs, each citing the selected document, so that a
\* document with at least one chunk gives positive confidence and evidence
C13_ResearcherEvidence ==
  /\ (entry = "agent_call" /\ agents = <<"Researcher">> /\ pc = "Call")
       => ENABLED agent_call
  /\ \A m \in ResearcherMessages :
       IF documents = <<>>
       THEN m.confidence = 0 /\ m.evidence = <<>>
       ELSE /\ m.confidence = 85
            /\ \E d \in 1..Len(documents) :
                 /\ Len(m.evidence) = Min(3, Len(documents[d].chunks))
                 /\ \A e \in 1..Len(m.evidence) :
                      m.evidence[e].doc_id = documents[d].id
            /\ (\A d \in 1..Len(documents) : Len(documents[d].chunks) >= 1)
                 => m.confidence > 0 /\ m.evidence # <<>>

\* a direct call on two documents that returned three EvidenceRefs citing the
\* second one, a document of more than three chunks
C13_Witness ==
  /\ entry = "agent_call" /\ agents = <<"Researcher">> /\ pc = "Returned"
  /\ Len(documents) = 2
  /\ documents[1].id # documents[2].id
  /\ Len(documents[2].chunks) > 3
  /\ Len(act_result.evidence) = 3
  /\ \A e \in 1..3 : act_result.evidence[e].doc_id = documents[2].id
  /\ act_result.confidence = 85

----------------------------------------------------------------------------
(* The title of a document.                                                 *)

TitleReturned == entry = "extract_title" /\ pc = "Returned"

\* the name without its extension: what precedes its last dot
WithoutExtension(name) ==
  IF \A i \in 1..Len(name) : name[i] # "." THEN name
  ELSE LET d == CHOOSE k \in 1..Len(name) :
                  name[k] = "." /\ \A j \in (k + 1)..Len(name) : name[j] # "."
       IN  SubSeq(name, 1, d - 1)

\* C14: the title is the first non-empty line of the text, cut to 100
\* characters; only a text without such a line gets the file name without
\* its extension; a text whose first line is non-empty gets that line (cut to
\* 100 characters)
C14_TitleFirstNonEmptyLine ==
  TitleReturned =>
    LET lines    == split_lines(text)
        nonEmpty == {i \in 1..Len(lines) : lines[i] # <<>>}
    IN  /\ nonEmpty # {} =>
             LET first == CHOOSE i \in nonEmpty : \A j \in nonEmpty : i <= j
             IN  title = Take(lines[first], 100)
        /\ nonEmpty = {} => title = WithoutExtension(filename)
        /\ lines[1] # <<>> => title = Take(lines[1], 100)

----------------------------------------------------------------------------
(* Closing and seeding of chunks.                                           *)

\* the loop of extract_chunks is about to take the sentence at sent_idx
TakesSentence == entry = "extract_chunks" /\ pc = "Loop" /\ sent_idx <= Len(sentences)

\* the last k characters of s
Trailing(s, k) == SubSeq(s, Len(s) - k + 1, Len(s))

\* C15: a chunk is closed exactly when the running chunk is non-empty and
\* would, with the next sentence added, have more than chunk_size characters;
\* the next chunk then starts with the trailing 30% of the characters of the
\* chunk just closed, followed by that sentence; so a text of several
\* sentences whose lengths add up to more than chunk_size gives more than one
\* chunk, none with empty content
C15_CloseAndSeed ==
  /\ [][TakesSentence =>
          LET sentence == sentences[sent_idx]
              running  == Strip(current_chunk \o <<" ">> \o sentence)
              closed   == Strip(current_chunk)
          IN  /\ (Len(chunks') = Len(chunks) + 1)
                   <=> (current_chunk # <<>> /\ Len(running) > chunk_size)
              /\ (Len(chunks') = Len(chunks) + 1) =>
                   /\ chunks'[Len(chunks')].content = closed
                   /\ current_chunk' = Trailing(closed, (3 * Len(closed)) \div 10)
                                       \o <<" ">> \o sentence]_vars
  /\ [](ChunksReturned =>
          /\ (Len(sentences) >= 2 /\ SumLen([i \in 1..Len(sentences) |->
                                               [content |-> sentences[i]]]) > chunk_size)
               => Len(chunks) > 1
          /\ \A i \in 1..Len(chunks) : chunks[i].content # <<>>)

----------------------------------------------------------------------------
(* DataInspectorAgent.act.                                                  *)

\* the messages DataInspectorAgent.act has returned in this behaviour
DataInspectorMessages ==
  IF entry = "run"
  THEN {all_messages[k] : k \in {j \in 1..Len(all_messages) :
                                   all_messages[j].agent = "DataInspector"}}
  ELSE IF entry = "agent_call" /\ agents = <<"DataInspector">> /\ pc = "Returned"
  THEN {act_result}
  ELSE {}

\* C16: DataInspector emits at most two EvidenceRefs and only for documents
\* that have metrics: a document whose metrics is the sentinel "None
\* mentioned" has no metrics and gets no EvidenceRef
C16_EvidenceOnlyForMetrics ==
  \A m \in DataInspectorMessages :
    /\ Len(m.evidence) <= 2
    /\ \A e \in 1..Len(m.evidence) :
         /\ DictHas(metadata, m.evidence[e].doc_id)
         /\ DictGet(metadata, m.evidence[e].doc_id, NoneRecord).metrics
              # <<"N","o","n","e"," ","m","e","n","t","i","o","n","e","d">>

----------------------------------------------------------------------------
(* A fault raised by an agent.                                              *)

\* C17: when an agent's act raises, the fault leaves run: no later agent and
\* no later round is executed, run returns no (history, graph) pair, and
\* nothing done before is undone: the messages, graph nodes and progress
\* notifications of the acts completed before the fault are as they were
C17_FaultLeavesRun ==
  (entry = "run" /\ act_faults # <<>>) =>
    /\ pc = "Raised"
    /\ ~ENABLED NextObserved
    /\ Len(act_faults) = 1
    /\ act_faults[1] = <<round_num, agents[agent_idx]>>
    /\ Len(all_messages) = (round_num - 1) * Len(agents) + (agent_idx - 1)
    /\ Len(message_graph.nodes) = Len(all_messages)
    /\ message_graph.edges = <<>>
    /\ progress_callback =>
         /\ Len(progress_calls) = Len(all_messages)
         /\ \A k \in 1..Len(all_messages) :
              progress_calls[k] = ObserverCall(all_messages[k])

\* a fault in a later round, raised by an agent that is not the first of its
\* round, after the observer was notified of the earlier acts
C17_Witness ==
  /\ entry = "run" /\ pc = "Raised" /\ act_faults # <<>>
  /\ round_num >= 2 /\ agent_idx >= 2
  /\ round_num < num_rounds
  /\ progress_callback /\ Len(progress_calls) >= 3

----------------------------------------------------------------------------
(* The stored documents of the dashboard.                                   *)

\* the text of the file cannot be extracted
ExtractionFails(file) == file.type # "text/plain" /\ "pages" \notin DOMAIN file

\* C18: in a Process Uploads batch a file whose text extraction fails adds
\* no document and no metadata entry and does not stop the batch: the
\* documents stored by the batch are those of its other files, in upload
\* order, after the documents stored before, each with its metadata entry
C18_FailedFileSkipped ==
  (entry = "app" /\ last_handler = "process_uploads") =>
    LET ok     == SelectSeq(uploaded_files, LAMBDA f : ~ExtractionFails(f))
        before == Len(documents_before)
    IN  /\ Len(documents) = before + Len(ok)
        /\ SubSeq(documents, 1, before) = documents_before
        /\ Len(metadata) = Len(documents)
        /\ \A j \in 1..Len(ok) :
             /\ documents[before + j].filename = ok[j].name
             /\ DictHas(metadata, documents[before + j].id)
             /\ DictGet(metadata, documents[before + j].id, NoneRecord).filename = ok[j].name

\* a batch added to stored documents whose first file fails and whose second
\* file is stored
C18_Witness ==
  /\ entry = "app" /\ last_handler = "process_uploads"
  /\ documents_before # <<>>
  /\ Len(uploaded_files) = 2
  /\ ExtractionFails(uploaded_files[1]) /\ ~ExtractionFails(uploaded_files[2])
  /\ Len(documents) = Len(documents_before) + 1
  /\ documents[Len(documents)].filename = uploaded_files[2].name

\* C19: after any sequence of Process Uploads batches and Clear All the
\* stored documents have pairwise distinct ids, the i-th (from 0) has id
\* doc_i, and doc_metadata has exactly one entry per stored document, under
\* its id; Clear All empties documents, metadata and agent messages and
\* resets report and graph to None together
C19_StoredDocumentIds ==
  entry = "app" =>
    /\ \A i \in 1..Len(documents) :
         /\ documents[i].id = <<"d","o","c","_">> \o Str(i - 1)
         /\ Cardinality({k \in 1..Len(metadata) : metadata[k][1] = documents[i].id}) = 1
    /\ \A i, j \in 1..Len(documents) : i # j => documents[i].id # documents[j].id
    /\ Len(metadata) = Len(documents)
    /\ last_handler = "clear_all" =>
         /\ documents = <<>> /\ metadata = <<>> /\ all_messages = <<>>
         /\ IsNone(report) /\ IsNone(message_graph)

\* three documents stored by several batches, the last batch with a failing
\* file, after an analysis has run
C19_Witness ==
  /\ entry = "app" /\ last_handler = "process_uploads"
  /\ Len(documents) = 3 /\ Len(metadata) = 3
  /\ documents_before # <<>>
  /\ \E k \in 1..Len(uploaded_files) : ExtractionFails(uploaded_files[k])
  /\ all_messages # <<>> /\ ~IsNone(report)

=============================================================================
